---- MODULE Spec2Model ----
(***************************************************************************)
(* Model of cm.py: the Clipboard class (backup / restore engine and its    *)
(* listener lifecycle) together with the part of the environment it talks  *)
(* to: the OS clipboard, its change-sequence number, the notification      *)
(* queue of the hidden window and the threads that call listen()/stop().   *)
(*                                                                         *)
(* The win32clipboard primitives are modelled by their contract: a call    *)
(* made while the caller does not have the clipboard open fails (raises);  *)
(* OpenClipboard, GetClipboardData, EmptyClipboard and SetClipboardData    *)
(* may also fail on their own, chosen nondeterministically.  Payloads are  *)
(* opaque values that the primitives store and return unchanged.           *)
(***************************************************************************)
EXTENDS Integers, Sequences, FiniteSets, TLC

\* ---------------------------------------------------------------- bounds
MaxSeq == 5          \* cap on the OS clipboard sequence number
MaxPending == 2      \* WM_CLIPBOARDUPDATE messages kept in the window queue

\* ------------------------------------------------------- program constants
\* SUPPORTED_CF, cm.py:15-29
SUPPORTED_CF ==
    {"Rich Text Format", "CF_TEXT", "CF_OEMTEXT", "CF_LOCALE", "CF_DIBV5",
     "CF_UNICODETEXT", "HTML Format", "image/svg+xml", "PNG"}

\* range(1, 5) of the OpenClipboard loop, cm.py:82
OpenAttempts == 4

\* formats external writers use; CF_BITMAP is not in SUPPORTED_CF (cm.py:20)
ClipFormats == {"CF_TEXT", "CF_UNICODETEXT", "CF_BITMAP"}

WND == 0                         \* the window procedure's context
Callers == {1, 2}                \* threads running listen(); runner thread ids
Ctx == {WND} \cup Callers        \* contexts that can run _process_clip

\* ------------------------------------------------------------ helpers
Entry(f, d) == [fmt |-> f, data |-> d]

FormatsOf(s) == {s[k].fmt : k \in 1..Len(s)}

\* a clipboard / dict content as a mapping format -> payload
AsMap(s) == {<<s[k].fmt, s[k].data>> : k \in 1..Len(s)}

\* contents other processes put on the clipboard, in enumeration order:
\* one or two supported formats, an unsupported format alone and mixed
Contents ==
    {<<Entry("CF_UNICODETEXT", "hello")>>,
     <<Entry("CF_UNICODETEXT", "bye"), Entry("CF_TEXT", "hello")>>,
     <<Entry("CF_BITMAP", "img")>>,
     <<Entry("CF_TEXT", "bye"), Entry("CF_BITMAP", "img")>>}

\* the one content used where the lifecycle, not the data, is explored
TrayContents == {<<Entry("CF_TEXT", "hello")>>}

\* nothing done yet by an evaluation: kind of operation run, whether an
\* exception is propagating, primitives called after the OpenClipboard loop,
\* formats of the dict whose SetClipboardData fails, whether OpenClipboard
\* succeeded and how many OpenClipboard calls were made
NoResult == [kind |-> "none", raised |-> FALSE, calls |-> {}, wf |-> {}, rf |-> {},
             got |-> FALSE, tries |-> 0, okAt |-> 0, waited |-> 0]

\* ---------------------------------------------------------------- state
VARIABLES
    clip,            \* OS clipboard: sequence of [fmt, data] in enumeration order
    osSeq,           \* GetClipboardSequenceNumber()
    opened,          \* contexts of this process that have the clipboard open
    registered,      \* hwnd is in the clipboard format listener list
    pending,         \* WM_CLIPBOARDUPDATE messages queued for the window
    quit,            \* WM_QUIT posted to a runner thread and not yet retrieved
    trigger_at_start,\* self._trigger_at_start
    clip_data,       \* self._clip_data (dict, insertion ordered)
    last_clip_seq,   \* self._last_clip_seq
    thread_id,       \* self._thread_id
    cpc,             \* position of each listen() caller
    rpc,             \* position of each runner thread
    spc,             \* position of the thread calling stop()
    dispatcher,      \* runner whose PumpMessages is inside the window procedure
    epc,             \* position of each context inside _process_clip
    res,             \* what the current evaluation has done so far
    backedUp,        \* clip_data was captured from the present clipboard content
    readFailed,      \* that capture had a failing GetClipboardData
    preClear,        \* content removed by an external EmptyClipboard after a backup
    stopAfterListen, \* the stop() in progress was called while a thread was
                     \* inside listen()
    seen             \* "own": the present sequence number was produced by a
                     \* restore of the watcher; otherwise
                     \* the latest notification evaluated at the present sequence
                     \* number: "none", "start" (passed or failed the duplicate
                     \* check, clipboard not opened) or "opened"

vars == <<clip, osSeq, opened, registered, pending, quit, trigger_at_start,
          clip_data, last_clip_seq, thread_id, cpc, rpc, spc, dispatcher,
          epc, res, backedUp, readFailed, preClear, stopAfterListen, seen>>

osVars == <<clip, osSeq, opened, registered, pending, quit>>
objVars == <<clip_data, last_clip_seq, thread_id>>
lifeVars == <<cpc, rpc, spc>>
evalVars == <<dispatcher, epc, res>>
ghostVars == <<backedUp, readFailed, preClear, stopAfterListen>>



\* ------------------------------------------------ _backup_clipboard (pure)
\* the dict built by the loop of cm.py:110-121: every enumerated format that is
\* in SUPPORTED_CF and whose GetClipboardData did not raise, in enumeration order
BackupDataNoFilter(c, readFail) ==
    LET Keep(x) == x.fmt \notin readFail
    IN  SelectSeq(c, Keep)

BackupDataLastOnly(c, readFail) ==
    LET Keep(x) == x.fmt \in SUPPORTED_CF /\ x.fmt \notin readFail
        all == SelectSeq(c, Keep)
    IN  IF all = <<>> THEN <<>> ELSE <<all[Len(all)]>>

BackupDataAbort(c, readFail) ==
    LET Supported(x) == x.fmt \in SUPPORTED_CF
        all == SelectSeq(c, Supported)
        bad == {i \in 1..Len(all) : all[i].fmt \in readFail}
    IN  IF bad = {} THEN all
        ELSE SubSeq(all, 1, (CHOOSE i \in bad : \A j \in bad : i <= j) - 1)

BackupData(c, readFail) ==
    LET Keep(x) == x.fmt \in SUPPORTED_CF /\ x.fmt \notin readFail
    IN  SelectSeq(c, Keep)

\* formats for which the backup loop calls GetClipboardData
ReadFormats(c) == FormatsOf(c) \cap SUPPORTED_CF

\* ------------------------------------------------ _restore_clipboard (pure)
\* number of entries the loop of cm.py:134-143 writes before it returns:
\* it stops at the first entry whose SetClipboardData raises
RECURSIVE Written(_, _)
Written(d, writeFail) ==
    IF d = <<>> \/ Head(d).fmt \in writeFail THEN 0
    ELSE 1 + Written(Tail(d), writeFail)

RestoredContinue(d, writeFail) ==
    LET Ok(x) == x.fmt \notin writeFail
    IN  SelectSeq(d, Ok)

\* the clipboard after EmptyClipboard and the writes of cm.py:132-143
Restored(d, writeFail) == SubSeq(d, 1, Written(d, writeFail))

NothingToRestoreNever(d) == FALSE

\* if self._clip_data == {}, cm.py:127
NothingToRestore(d) == d = <<>>

\* format == 0 at cm.py:95: EnumClipboardFormats(0) found no format
ClipboardEmpty(c) == c = <<>>

\* primitives called by _backup_clipboard on clipboard c
BackupCalls(c) == {"enumerate"} \cup (IF ReadFormats(c) # {} THEN {"read"} ELSE {})

\* cm.py:110, cm.py:123: self._clip_data = data, where data was built from an
\* empty dict; old is the dict before the backup, fresh what the loop captured
NewSnapshotMerged(old, fresh) ==
    LET Stale(x) == x.fmt \notin FormatsOf(fresh)
    IN  SelectSeq(old, Stale) \o fresh
NewSnapshot(old, fresh) == fresh

\* cm.py:126-144: _restore_clipboard reads self._clip_data and does not assign it
SnapshotConsumed(d) == <<>>
SnapshotAfterRestore(d) == d

\* ----------------------------------------- body of _process_clip, cm.py:91-99
\* c: clipboard, d: self._clip_data, open: this context has the clipboard open,
\* f: the primitives that fail on their own in this evaluation.
\* Result: the new clipboard and dict, the number of clipboard changes made,
\* and what was done (kind, primitives called, whether an exception left the body).
Body(c, d, open, f) ==
    IF ~open THEN
        \* EnumClipboardFormats(0) on a clipboard that is not open raises
        [clip |-> c, data |-> d, inc |-> 0,
         kind |-> "none", raised |-> TRUE, calls |-> {"enumerate"}]
    ELSE IF ~ClipboardEmpty(c) THEN
        [clip |-> c, data |-> NewSnapshot(d, BackupData(c, f.read)), inc |-> 0,
         kind |-> "backup", raised |-> FALSE, calls |-> BackupCalls(c)]
    ELSE IF NothingToRestore(d) THEN
        [clip |-> c, data |-> d, inc |-> 0,
         kind |-> "restore", raised |-> FALSE, calls |-> {"enumerate"}]
    ELSE IF f.clear THEN
        \* EmptyClipboard raised: not caught in _restore_clipboard
        [clip |-> c, data |-> d, inc |-> 0,
         kind |-> "restore", raised |-> TRUE, calls |-> {"enumerate", "clear"}]
    ELSE
        [clip |-> Restored(d, f.write), data |-> SnapshotAfterRestore(d),
         inc |-> 1 + Len(Restored(d, f.write)),
         kind |-> "restore", raised |-> FALSE, calls |-> {"enumerate", "clear", "write"}]

\* failures the primitives can have on their own during one evaluation
Faults == [read : SUBSET (ClipFormats \cap SUPPORTED_CF), clear : BOOLEAN,
           write : SUBSET (ClipFormats \cap SUPPORTED_CF)]


IsDuplicateStrict(last, seq) == last > seq

\* if self._last_clip_seq >= clip_seq, cm.py:78
IsDuplicate(last, seq) == last >= seq

NewCursorStale(last, seq) == last
NewCursorBehind(last, seq) == IF seq > last THEN last + 1 ELSE seq
NewCursorAhead(last, seq) == seq + 1

\* self._last_clip_seq = win32clipboard.GetClipboardSequenceNumber(), cm.py:103
NewCursor(last, seq) == seq

IsRunningInverted(tid) == tid < 0

\* if self._thread_id > 0, cm.py:147 and cm.py:172
IsRunning(tid) == tid > 0

\* ------------------------------------------------------ sequence budget
\* cm.py:82-87: the number of OpenClipboard calls of the loop when call k is
\* the first that does not raise (k = 0: every call raises)
AttemptsNoBreak(k) == OpenAttempts
Attempts(k) == IF k = 0 THEN OpenAttempts ELSE k

\* cm.py:84: the sleep before call i of the loop, in tenths of a second
WaitConstant(i) == 1
Wait(i) == i

\* cm.py:82-85: the time slept in the loop over its first n calls
RECURSIVE Waited(_)
Waited(n) == IF n = 0 THEN 0 ELSE Waited(n - 1) + Wait(n)

\* cm.py:162: the value the runner leaves in _thread_id when PumpMessages
\* has returned
ThreadIdAtExitKept(tid) == tid
ThreadIdAtExit(tid) == 0

\* cm.py:101: CloseClipboard raises when the calling context does not have
\* the clipboard open
CloseRaisesNever(o, e) == FALSE
CloseRaises(o, e) == e \notin o

\* cm.py:100-101: the contexts holding the clipboard once the finally clause
\* of context e has run; raised tells whether the try block raised
HoldersAfterTryOnly(o, e, raised) == IF raised THEN o ELSE o \ {e}
HoldersAfterFinally(o, e, raised) == o \ {e}

\* evaluations that have been entered and may still run a restore
InFlight == {e \in Ctx : epc[e] \in {"start", "open", "body"}}

\* clipboard changes one restore can make: EmptyClipboard and one
\* SetClipboardData per entry of the dict
RestoreCost == 1 + Cardinality(ClipFormats \cap SUPPORTED_CF)

\* the OS sequence number stays within MaxSeq when n more changes are made
\* and every evaluation in flight still runs a full restore
Budget(n) == osSeq + n + RestoreCost * Cardinality(InFlight) <= MaxSeq

\* _process_clip may be entered: it will return at the duplicate check, or the
\* sequence numbers its restore can use up are still available
MayEvaluate == IsDuplicate(last_clip_seq, osSeq) \/ Budget(RestoreCost)

\* WM_CLIPBOARDUPDATE posted for n clipboard changes
Notify(n) ==
    IF ~registered THEN pending
    ELSE IF pending + n < MaxPending THEN pending + n ELSE MaxPending

\* ------------------------------------------------------------- Init
\* Clipboard.__init__, cm.py:33-38
InitObject ==
    /\ clip = <<>>
    /\ osSeq = 0
    /\ opened = {}
    /\ registered = FALSE
    /\ pending = 0
    /\ quit = [r \in Callers |-> FALSE]
    /\ clip_data = <<>>
    /\ last_clip_seq = 0
    /\ thread_id = 0
    /\ cpc = [c \in Callers |-> "idle"]
    /\ rpc = [r \in Callers |-> "none"]
    /\ spc = "idle"
    /\ dispatcher = 0
    /\ epc = [e \in Ctx |-> "idle"]
    /\ res = [e \in Ctx |-> NoResult]
    /\ backedUp = FALSE
    /\ readFailed = FALSE
    /\ preClear = <<>>
    /\ stopAfterListen = FALSE
    /\ seen = "none"

\* a Clipboard constructed with either value of trigger_at_start
Init == InitObject /\ trigger_at_start \in BOOLEAN

\* TrayIcon.run, cm.py:193: Clipboard(trigger_at_start=False)
InitTray == InitObject /\ trigger_at_start = FALSE

\* ------------------------------------------------- other processes
\* another process replaces the clipboard content by one of S
ExternalSet(S) ==
    /\ opened = {}
    /\ Budget(1)
    /\ \E s \in S : clip' = s
    /\ osSeq' = osSeq + 1
    /\ pending' = Notify(1)
    /\ backedUp' = FALSE
    /\ readFailed' = FALSE
    /\ preClear' = <<>>
    /\ seen' = "none"
    /\ UNCHANGED <<opened, registered, quit, trigger_at_start, stopAfterListen>>
    /\ UNCHANGED <<objVars, lifeVars, evalVars>>

\* another process empties the clipboard
ExternalEmpty ==
    /\ opened = {}
    /\ Budget(1)
    /\ clip' = <<>>
    /\ osSeq' = osSeq + 1
    /\ pending' = Notify(1)
    /\ preClear' = IF backedUp THEN clip ELSE IF clip = <<>> THEN preClear ELSE <<>>
    /\ backedUp' = FALSE
    /\ seen' = "none"
    /\ UNCHANGED <<opened, registered, quit, trigger_at_start, readFailed,
                   stopAfterListen>>
    /\ UNCHANGED <<objVars, lifeVars, evalVars>>

\* --------------------------------------------------- _process_clip
\* cm.py:75-81: read the sequence number, return on a processed sequence
ProcessClipStart(e) ==
    /\ epc[e] = "start"
    /\ IF IsDuplicate(last_clip_seq, osSeq)
       THEN /\ epc' = [epc EXCEPT ![e] = "ret"]
            /\ res' = [res EXCEPT ![e].kind = "discard"]
       ELSE /\ epc' = [epc EXCEPT ![e] = "open"]
            /\ UNCHANGED res
    /\ seen' = IF e = WND /\ seen # "own" THEN "start" ELSE seen
    /\ UNCHANGED <<osVars, objVars, lifeVars, ghostVars, trigger_at_start, dispatcher>>

\* cm.py:82-89: the OpenClipboard loop.  A call fails while the clipboard is
\* open elsewhere; the loop ends at the first call that succeeds, or after
\* OpenAttempts failed calls, and the code goes on to line 91 either way
OpenClipboard(e) ==
    /\ epc[e] = "open"
    /\ \E k \in 0..OpenAttempts :
        LET ok == k > 0 IN
        /\ ok => opened = {}
        /\ opened' = IF ok THEN {e} ELSE opened
        /\ res' = [res EXCEPT ![e].got = ok, ![e].tries = Attempts(k),
                              ![e].okAt = k, ![e].waited = Waited(Attempts(k))]
        /\ seen' = IF e = WND /\ ok THEN "opened" ELSE seen
    /\ epc' = [epc EXCEPT ![e] = "body"]
    /\ UNCHANGED <<clip, osSeq, registered, pending, quit>>
    /\ UNCHANGED <<objVars, lifeVars, ghostVars, trigger_at_start, dispatcher>>

\* cm.py:91-99: enumerate, then _backup_clipboard or _restore_clipboard
ProcessClipBody(e) ==
    /\ epc[e] = "body"
    /\ \E f \in Faults :
        LET b == Body(clip, clip_data, e \in opened, f) IN
        /\ clip' = b.clip
        /\ clip_data' = b.data
        /\ osSeq' = osSeq + b.inc
        /\ pending' = Notify(b.inc)
        /\ res' = [res EXCEPT ![e] = [kind |-> b.kind, raised |-> b.raised,
                                      calls |-> b.calls,
                                      wf |-> IF "write" \in b.calls
                                             THEN f.write \cap FormatsOf(clip_data)
                                             ELSE {},
                                      rf |-> IF b.kind = "backup"
                                             THEN f.read \cap ReadFormats(clip)
                                             ELSE {},
                                      got |-> res[e].got, tries |-> 0,
                                      okAt |-> 0, waited |-> 0]]
        /\ IF b.kind = "backup"
           THEN /\ backedUp' = TRUE
                /\ readFailed' = (f.read \cap FormatsOf(clip) # {})
                /\ preClear' = <<>>
           ELSE IF b.inc > 0
           THEN /\ backedUp' = FALSE
                /\ UNCHANGED <<readFailed, preClear>>
           ELSE UNCHANGED <<backedUp, readFailed, preClear>>
        /\ seen' = IF b.inc > 0 THEN "own" ELSE seen
    /\ epc' = [epc EXCEPT ![e] = "finally"]
    /\ UNCHANGED <<opened, registered, quit, last_clip_seq, thread_id>>
    /\ UNCHANGED <<lifeVars, trigger_at_start, dispatcher, stopAfterListen>>

\* cm.py:101: CloseClipboard in the finally clause; it raises when this
\* context does not have the clipboard open, and line 103 is then skipped
CloseClipboard(e) ==
    /\ epc[e] = "finally"
    /\ opened' = HoldersAfterFinally(opened, e, res[e].raised)
    /\ IF CloseRaises(opened, e)
       THEN /\ epc' = [epc EXCEPT ![e] = "raised"]
            /\ res' = [res EXCEPT ![e].calls = @ \cup {"release"}, ![e].raised = TRUE]
       ELSE /\ epc' = [epc EXCEPT ![e] = "cursor"]
            /\ res' = [res EXCEPT ![e].calls = @ \cup {"release"}]
    /\ preClear' = IF res[e].kind = "restore" THEN <<>> ELSE preClear
    /\ UNCHANGED <<clip, osSeq, registered, pending, quit, backedUp, readFailed,
                   stopAfterListen>>
    /\ UNCHANGED <<objVars, lifeVars, trigger_at_start, dispatcher, seen>>

\* cm.py:103: refresh the cursor; an exception raised in the body goes on
\* propagating once the finally clause is done
UpdateCursor(e) ==
    /\ epc[e] = "cursor"
    /\ last_clip_seq' = NewCursor(last_clip_seq, osSeq)
    /\ epc' = [epc EXCEPT ![e] = IF res[e].raised THEN "raised" ELSE "ret"]
    /\ UNCHANGED <<osVars, clip_data, thread_id, lifeVars, ghostVars>>
    /\ UNCHANGED <<trigger_at_start, dispatcher, res, seen>>

\* cm.py:66-72: _process_message returns to the message loop (also when
\* _process_clip left it with an exception)
ProcessMessageReturn ==
    /\ epc[WND] \in {"ret", "raised"}
    /\ epc' = [epc EXCEPT ![WND] = "idle"]
    /\ res' = [res EXCEPT ![WND] = NoResult]
    /\ dispatcher' = 0
    /\ UNCHANGED <<osVars, objVars, lifeVars, ghostVars, seen, trigger_at_start>>

\* the steps of _process_clip in context e
ProcessClip(e) ==
    \/ ProcessClipStart(e)
    \/ OpenClipboard(e)
    \/ ProcessClipBody(e)
    \/ CloseClipboard(e)
    \/ UpdateCursor(e)

\* ------------------------------------------------------------ listen
\* a thread (TrayIcon.clipboard_runner, cm.py:199-203) calls listen()
ListenCall(c) ==
    /\ cpc[c] = "idle"
    /\ cpc' = [cpc EXCEPT ![c] = "check"]
    /\ UNCHANGED <<osVars, objVars, rpc, spc, evalVars, ghostVars, seen, trigger_at_start>>

\* cm.py:147-166: return when already running; otherwise evaluate once when
\* trigger_at_start is set, or create and start the runner thread
ListenCheck(c) ==
    /\ cpc[c] = "check"
    /\ IF IsRunning(thread_id)
       THEN /\ cpc' = [cpc EXCEPT ![c] = "idle"]
            /\ UNCHANGED <<rpc, epc>>
       ELSE IF trigger_at_start
       THEN /\ MayEvaluate
            /\ cpc' = [cpc EXCEPT ![c] = "trigger"]
            /\ epc' = [epc EXCEPT ![c] = "start"]
            /\ UNCHANGED rpc
       ELSE /\ cpc' = [cpc EXCEPT ![c] = "join"]
            /\ rpc' = [rpc EXCEPT ![c] = "start"]
            /\ UNCHANGED epc
    /\ UNCHANGED <<osVars, objVars, spc, dispatcher, res, ghostVars, seen, trigger_at_start>>

\* cm.py:152-166: _process_clip came back to listen(); an exception ends the
\* call to listen(), otherwise the runner thread is created and started
ListenTriggered(c) ==
    /\ cpc[c] = "trigger"
    /\ epc[c] \in {"ret", "raised"}
    /\ IF epc[c] = "raised"
       THEN /\ cpc' = [cpc EXCEPT ![c] = "idle"]
            /\ UNCHANGED rpc
       ELSE /\ cpc' = [cpc EXCEPT ![c] = "join"]
            /\ rpc' = [rpc EXCEPT ![c] = "start"]
    /\ epc' = [epc EXCEPT ![c] = "idle"]
    /\ res' = [res EXCEPT ![c] = NoResult]
    /\ UNCHANGED <<osVars, objVars, spc, dispatcher, ghostVars, seen, trigger_at_start>>

\* ------------------------------------------------------------ runner
\* cm.py:157: self._thread_id = win32api.GetCurrentThreadId()
RunnerSetThreadId(r) ==
    /\ rpc[r] = "start"
    /\ thread_id' = r
    /\ rpc' = [rpc EXCEPT ![r] = "add"]
    /\ UNCHANGED <<osVars, clip_data, last_clip_seq, cpc, spc, evalVars, ghostVars,
                   seen, trigger_at_start>>

\* cm.py:158: AddClipboardFormatListener(self._hwnd)
RunnerAddListener(r) ==
    /\ rpc[r] = "add"
    /\ registered' = TRUE
    /\ rpc' = [rpc EXCEPT ![r] = "pump"]
    /\ UNCHANGED <<clip, osSeq, opened, pending, quit, objVars, cpc, spc, evalVars,
                   ghostVars, seen, trigger_at_start>>

\* cm.py:159, cm.py:66-70: PumpMessages takes a WM_CLIPBOARDUPDATE from the
\* queue of the window and the window procedure calls _process_clip
RunnerDispatch(r) ==
    /\ rpc[r] = "pump"
    /\ pending > 0
    /\ dispatcher = 0
    /\ epc[WND] = "idle"
    /\ MayEvaluate
    /\ pending' = pending - 1
    /\ dispatcher' = r
    /\ epc' = [epc EXCEPT ![WND] = "start"]
    /\ UNCHANGED <<clip, osSeq, opened, registered, quit, objVars, lifeVars,
                   res, ghostVars, seen, trigger_at_start>>

\* cm.py:159: PumpMessages takes WM_QUIT from the queue and returns
RunnerQuit(r) ==
    /\ rpc[r] = "pump"
    /\ quit[r]
    /\ dispatcher # r
    /\ quit' = [quit EXCEPT ![r] = FALSE]
    /\ rpc' = [rpc EXCEPT ![r] = "remove"]
    /\ UNCHANGED <<clip, osSeq, opened, registered, pending, objVars, cpc, spc,
                   evalVars, ghostVars, seen, trigger_at_start>>

\* cm.py:160: RemoveClipboardFormatListener(self._hwnd)
RunnerRemoveListener(r) ==
    /\ rpc[r] = "remove"
    /\ registered' = FALSE
    /\ rpc' = [rpc EXCEPT ![r] = "exit"]
    /\ UNCHANGED <<clip, osSeq, opened, pending, quit, objVars, cpc, spc, evalVars,
                   ghostVars, seen, trigger_at_start>>

\* cm.py:162, cm.py:168-169: self._thread_id = 0, the thread ends (its
\* message queue goes with it) and the join loop of listen() returns
RunnerExit(r) ==
    /\ rpc[r] = "exit"
    /\ thread_id' = ThreadIdAtExit(thread_id)
    /\ rpc' = [rpc EXCEPT ![r] = "none"]
    /\ cpc' = [cpc EXCEPT ![r] = "idle"]
    /\ quit' = [quit EXCEPT ![r] = FALSE]
    /\ UNCHANGED <<clip, osSeq, opened, registered, pending>>
    /\ UNCHANGED <<clip_data, last_clip_seq, spc, evalVars, ghostVars,
                   seen, trigger_at_start>>

\* cm.py:154-162: the steps of the runner thread started by listen() in thread c
Runner(c) ==
    \/ RunnerSetThreadId(c)
    \/ RunnerAddListener(c)
    \/ RunnerDispatch(c)
    \/ RunnerQuit(c)
    \/ RunnerRemoveListener(c)
    \/ RunnerExit(c)

\* -------------------------------------------------------------- stop
\* a thread (the tray menu, cm.py:188, cm.py:206, cm.py:213) calls stop()
StopCall ==
    /\ spc = "idle"
    /\ spc' = "stop"
    /\ stopAfterListen' = (\E c \in Callers : cpc[c] # "idle")
    /\ UNCHANGED <<osVars, objVars, cpc, rpc, evalVars, seen, trigger_at_start>>
    /\ UNCHANGED <<backedUp, readFailed, preClear>>

\* cm.py:172-173: post WM_QUIT to the runner thread when one is recorded
StopPost ==
    /\ spc = "stop"
    /\ spc' = "idle"
    /\ quit' = IF IsRunning(thread_id) THEN [quit EXCEPT ![thread_id] = TRUE] ELSE quit
    /\ stopAfterListen' = FALSE
    /\ UNCHANGED <<clip, osSeq, opened, registered, pending, objVars, cpc, rpc,
                   evalVars, seen, trigger_at_start>>
    /\ UNCHANGED <<backedUp, readFailed, preClear>>

\* ------------------------------------------------------------- Next
\* one thread at a time is inside listen(); every clipboard content
Next ==
    \/ ExternalSet(Contents)
    \/ ExternalEmpty
    \/ \E e \in {WND, 1} : ProcessClip(e)
    \/ ProcessMessageReturn
    \/ ListenCall(1)
    \/ ListenCheck(1)
    \/ ListenTriggered(1)
    \/ Runner(1)
    \/ StopCall
    \/ StopPost

Spec == Init /\ [][Next]_vars

\* the tray: every 'Start CM' click starts a thread that calls listen(); the
\* object is built with trigger_at_start=False, so cm.py:152 is never reached
NextTray ==
    \/ ExternalSet(TrayContents)
    \/ ExternalEmpty
    \/ ProcessClip(WND)
    \/ ProcessMessageReturn
    \/ \E c \in Callers : ListenCall(c)
    \/ \E c \in Callers : ListenCheck(c)
    \/ \E c \in Callers : Runner(c)
    \/ StopCall
    \/ StopPost

SpecTray == InitTray /\ [][NextTray]_vars

\* scheduling: every thread of the program that can take a step takes one;
\* GetMessage hands out the posted messages in order, so a WM_QUIT that is
\* in the queue is retrieved however many notifications are handled.  The
\* callers of listen() and stop() and the other processes are free
Fairness ==
    /\ WF_vars(\E e \in {WND, 1} : ProcessClip(e))
    /\ WF_vars(ProcessMessageReturn)
    /\ WF_vars(ListenCheck(1) \/ ListenTriggered(1))
    /\ WF_vars(RunnerSetThreadId(1) \/ RunnerAddListener(1))
    /\ WF_vars(RunnerRemoveListener(1) \/ RunnerExit(1))
    /\ SF_vars(RunnerQuit(1))
    /\ WF_vars(StopPost)

FairSpec == Spec /\ Fairness


\* ================================================================ claims
\* a context whose evaluation has run the body of _process_clip and still
\* has to run the finally clause
AfterBody(e) == epc[e] = "finally"

\* _restore_clipboard was run with the clipboard open
RanRestore(e) == AfterBody(e) /\ res[e].kind = "restore" /\ res[e].got

\* the content taken away by the external clearing had only supported formats
\* and had been backed up before it was cleared
ClearedAfterBackup == preClear # <<>> /\ FormatsOf(preClear) \subseteq SUPPORTED_CF

\* C1 as stated: after a backup, an external clearing and a restore that
\* opened the clipboard and had no failing write (EmptyClipboard counted
\* with the writes), the clipboard holds exactly the format-to-payload
\* mapping it held before the clearing.
RoundTripAsStated ==
    \A e \in Ctx :
        (RanRestore(e) /\ res[e].wf = {} /\ ~res[e].raised /\ ClearedAfterBackup)
            => AsMap(clip) = AsMap(preClear)

\* C1 (amended): the same, when in addition the backup read every format.
RoundTrip ==
    \A e \in Ctx :
        (RanRestore(e) /\ res[e].wf = {} /\ ~res[e].raised /\ ~readFailed
            /\ ClearedAfterBackup)
            => AsMap(clip) = AsMap(preClear)

\* a restore has put back a two-format content that was backed up and cleared
RoundTripWitness ==
    /\ RanRestore(WND) /\ res[WND].wf = {} /\ ~res[WND].raised /\ ~readFailed
    /\ ClearedAfterBackup
    /\ Len(preClear) = 2
    /\ "write" \in res[WND].calls
    /\ clip = preClear

\* C2: after a backup in which no read failed the dict's keys are the
\* enumerated formats that are in SUPPORTED_CF, each with the clipboard's
\* payload; and the dict never holds a format outside SUPPORTED_CF.
BackupCapturesAllowListed ==
    /\ FormatsOf(clip_data) \subseteq SUPPORTED_CF
    /\ \A e \in Ctx :
        (AfterBody(e) /\ res[e].kind = "backup" /\ ~readFailed)
            => /\ FormatsOf(clip_data) = FormatsOf(clip) \cap SUPPORTED_CF
               /\ AsMap(clip_data) \subseteq AsMap(clip)
               /\ Len(clip_data) = Cardinality(FormatsOf(clip_data))

\* a backup of a clipboard holding a supported and an unsupported format
BackupWitness ==
    /\ AfterBody(WND) /\ res[WND].kind = "backup" /\ ~readFailed
    /\ FormatsOf(clip) \cap SUPPORTED_CF # {}
    /\ FormatsOf(clip) \ SUPPORTED_CF # {}
    /\ clip_data # <<>>

\* C3: an evaluation that starts while the OS sequence number is <= the
\* cursor ends at once: the clipboard is not opened and the dict, the
\* clipboard, the sequence number and the cursor are unchanged.
DuplicateDiscarded ==
    [][\A e \in Ctx :
        (epc[e] = "start" /\ epc'[e] # "start" /\ osSeq <= last_clip_seq)
            => /\ epc'[e] = "ret"
               /\ res'[e].calls = {}
               /\ ~res'[e].got
               /\ UNCHANGED <<clip, osSeq, opened, clip_data, last_clip_seq>>]_vars

\* a notification was discarded although the dict holds something to restore
DuplicateWitness ==
    /\ epc[WND] = "ret" /\ res[WND].kind = "discard"
    /\ osSeq <= last_clip_seq
    /\ osSeq > 0
    /\ clip_data # <<>>

\* an evaluation that passed the duplicate check and whose OpenClipboard
\* loop has ended without opening the clipboard
FailedToOpen(e) ==
    /\ epc[e] \in {"finally", "cursor", "ret", "raised"}
    /\ res[e].kind # "discard"
    /\ ~res[e].got

\* C4 as stated: when no OpenClipboard call succeeds the evaluation calls no
\* clipboard primitive, runs neither backup nor restore, and returns normally.
NoActionWithoutAccess ==
    \A e \in Ctx :
        FailedToOpen(e) => /\ res[e].calls = {}
                           /\ res[e].kind = "none"
                           /\ ~res[e].raised
                           /\ epc[e] # "raised"

\* C5 as stated: no failure of a clipboard primitive leaves _process_clip as
\* an exception, neither in the window procedure nor in the caller of listen().
FailuresContained ==
    \A e \in Ctx : epc[e] # "raised" /\ ~res[e].raised

\* index of the first dict entry whose SetClipboardData fails
FirstFailing(d, wf) ==
    CHOOSE k \in 1..Len(d) : d[k].fmt \in wf /\ \A j \in 1..(k - 1) : d[j].fmt \notin wf

\* C6: when a write fails during a restore, the restore returns without an
\* exception, the clipboard holds exactly the entries that precede the
\* failing one, and nothing after it was written.
PartialRestore ==
    \A e \in Ctx :
        (RanRestore(e) /\ res[e].wf # {})
            => /\ ~res[e].raised
               /\ clip = SubSeq(clip_data, 1, FirstFailing(clip_data, res[e].wf) - 1)

\* the write of the second of two entries failed; the first is on the clipboard
PartialRestoreWitness ==
    /\ RanRestore(WND) /\ res[WND].wf # {}
    /\ Len(clip_data) = 2
    /\ FirstFailing(clip_data, res[WND].wf) = 2
    /\ clip = <<clip_data[1]>>

\* C7: a restore with an empty dict calls neither EmptyClipboard nor
\* SetClipboardData and leaves the clipboard and its sequence number as
\* they were.
EmptySnapshotRestoreIsNoOp ==
    [][\A e \in Ctx :
        (epc[e] = "body" /\ epc'[e] = "finally" /\ clip = <<>> /\ clip_data = <<>>)
            => /\ res'[e].calls \cap {"clear", "write"} = {}
               /\ e \in opened => ~res'[e].raised
               /\ UNCHANGED <<clip, osSeq, pending, clip_data>>]_vars

\* a restore ran on an empty clipboard with an empty dict
EmptySnapshotWitness ==
    /\ RanRestore(WND)
    /\ clip_data = <<>>
    /\ clip = <<>>
    /\ osSeq > 0

\* the listener states: Stopped (0) or Running (the runner's thread id)
ListenerStates == thread_id \in {0} \cup Callers

\* C8: listen() while _thread_id > 0 returns without starting a runner or an
\* evaluation and leaves the listener Running; stop() while _thread_id = 0
\* posts nothing and changes no field; _thread_id is 0 or a runner's id.
LifecycleIdempotent ==
    /\ []ListenerStates
    /\ [][/\ \A c \in Callers :
              (cpc[c] = "check" /\ cpc'[c] # "check" /\ thread_id > 0)
                  => /\ cpc'[c] = "idle"
                     /\ UNCHANGED <<rpc, epc, res, dispatcher, osVars, objVars>>
          /\ (spc = "stop" /\ spc' # "stop" /\ thread_id = 0)
                  => UNCHANGED <<osVars, objVars, cpc, rpc, evalVars>>]_vars

\* listen() is called while another thread's runner is pumping messages
LifecycleWitness ==
    /\ cpc[2] = "check"
    /\ thread_id = 1
    /\ rpc[1] = "pump"

\* stop() is called while no runner is recorded
StopWhileStoppedWitness ==
    /\ spc = "stop"
    /\ thread_id = 0
    /\ \A r \in Callers : rpc[r] = "none"

\* runner threads registered for notifications and pumping messages
Listening == {r \in Callers : rpc[r] \in {"pump", "remove"}}

\* contexts inside _process_clip
Evaluating == {e \in Ctx : epc[e] # "idle"}

\* C9 as stated: at most one listening context exists at any time and no
\* two evaluations run at once.
SingleListeningContext ==
    /\ Cardinality(Listening) <= 1
    /\ Cardinality(Evaluating) <= 1

\* C10 as stated: a notification evaluated at the sequence number at which
\* the previous notification was evaluated is discarded.
SecondNotificationDiscarded ==
    [][(epc[WND] = "start" /\ epc'[WND] # "start" /\ seen \in {"start", "opened"})
          => epc'[WND] = "ret"]_vars

\* C10 (amended): the same, when the previous notification's evaluation
\* opened the clipboard.
SecondDiscardedAfterProcessing ==
    [][(epc[WND] = "start" /\ epc'[WND] # "start" /\ seen = "opened")
          => (epc'[WND] = "ret" /\ UNCHANGED <<clip, osSeq, clip_data, last_clip_seq>>)]_vars

\* a second notification arrives at the sequence number of a backup
SecondNotificationWitness ==
    /\ epc[WND] = "start"
    /\ seen = "opened"
    /\ clip # <<>>
    /\ clip_data # <<>>

\* C11: an evaluation holds the clipboard only between its acquisition and its
\* finally clause: once the finally clause has run, and whenever no
\* evaluation is in progress, the watcher does not hold the clipboard, also
\* when the enumeration, the backup or the restore raised
Holding(e) == e \in opened
GuaranteedRelease ==
    /\ \A e \in Ctx : Holding(e) => epc[e] \in {"body", "finally"}
    /\ \A e \in Ctx : epc[e] \in {"cursor", "ret", "raised"} /\ res[e].got
                           => "release" \in res[e].calls
    /\ Evaluating = {} => opened = {}

\* an evaluation that acquired the clipboard, whose restore raised at
\* EmptyClipboard, past its finally clause
ReleaseWitness ==
    /\ epc[WND] \in {"cursor", "raised"}
    /\ res[WND].got /\ res[WND].raised /\ res[WND].kind = "restore"
    /\ "release" \in res[WND].calls
    /\ opened = {}

\* C12: once stop() is called while _thread_id > 0, the listener reaches
\* Stopped: the runner has left PumpMessages, has removed the registration and
\* has reset _thread_id; and the runner leaves PumpMessages only between two
\* messages, so an evaluation in flight is completed before it unregisters
Stopped == thread_id = 0 /\ ~registered /\ \A r \in Callers : rpc[r] = "none"
StopLeadsToStopped ==
    /\ (spc = "stop" /\ IsRunning(thread_id)) ~> Stopped
    /\ [](\A r \in Callers : rpc[r] \in {"remove", "exit"} => dispatcher # r)

\* stop() has posted WM_QUIT while the window procedure is inside an evaluation
StopWitness ==
    /\ quit[1] /\ rpc[1] = "pump" /\ thread_id = 1
    /\ dispatcher = 1 /\ epc[WND] \in {"open", "body"}

\* C13: after a backup the formats of the dict are exactly the supported
\* formats of the clipboard whose GetClipboardData call did not raise, each
\* with the payload the clipboard holds: a failed read takes away its own
\* format and no other
ReadFailureIsolated ==
    \A e \in Ctx :
        (AfterBody(e) /\ res[e].kind = "backup")
            => /\ res[e].rf \subseteq ReadFormats(clip)
               /\ FormatsOf(clip_data) = ReadFormats(clip) \ res[e].rf
               /\ AsMap(clip_data) \subseteq AsMap(clip)

\* a backup in which the first read failed and a later one succeeded
ReadFailureWitness ==
    /\ AfterBody(WND) /\ res[WND].kind = "backup"
    /\ Len(clip) >= 2
    /\ clip[1].fmt \in res[WND].rf
    /\ clip_data # <<>>

\* C14: an evaluation whose OpenClipboard calls all failed changes neither
\* the cursor nor the dict, and when it ends the cursor is still below the OS
\* sequence number, so the next notification passes the test of cm.py:78
SkippedNotLost ==
    /\ [](\A e \in Ctx : FailedToOpen(e) => ~IsDuplicate(last_clip_seq, osSeq))
    /\ [][\A e \in Ctx :
            (epc[e] \in {"body", "finally", "cursor"} /\ ~res[e].got /\ epc'[e] # epc[e])
                => UNCHANGED <<last_clip_seq, clip_data>>]_vars

\* the evaluation of a notification has ended without access, a dict from an
\* earlier backup is kept, and a further notification is in the queue
SkippedWitness ==
    /\ FailedToOpen(WND) /\ epc[WND] = "raised"
    /\ clip_data # <<>>
    /\ pending > 0
    /\ last_clip_seq < osSeq

\* C15: cm.py:103 sets the cursor to the OS sequence number of that moment,
\* which counts the EmptyClipboard and SetClipboardData calls of the restore
\* that has just run; so while the clipboard is as a restore left it the
\* cursor is not behind, and a notification evaluated then (one the restore
\* itself gave rise to) returns at cm.py:80 and changes nothing
CursorRefreshed ==
    /\ []((seen = "own" /\ Evaluating = {}) => last_clip_seq = osSeq)
    /\ [][\A e \in Ctx :
            /\ (epc[e] = "cursor" /\ epc'[e] # "cursor")
                   => (last_clip_seq' = osSeq /\ osSeq' = osSeq)
            /\ (epc[e] = "start" /\ epc'[e] # "start" /\ seen = "own")
                   => (/\ epc'[e] = "ret" /\ res'[e].kind = "discard"
                       /\ UNCHANGED <<clip, osSeq, clip_data, last_clip_seq, opened>>)]_vars

\* the window procedure is given a notification that a restore of two
\* entries gave rise to
OwnNotificationWitness ==
    /\ epc[WND] = "start"
    /\ seen = "own"
    /\ Len(clip) = 2
    /\ clip = clip_data

\* C16: when the loop of cm.py:82-89 is over, OpenClipboard has been called at
\* most 4 times; if a call succeeded it was the last one made and this
\* context holds the clipboard, otherwise all 4 were made; and the sleep
\* before call i is i times the sleep before the first, so that the loop has
\* slept 1 + 2 + ... + tries tenths of a second
AfterOpenLoop(e) == epc[e] = "body"
BoundedRetry ==
    \A e \in Ctx :
        AfterOpenLoop(e) =>
            LET r == res[e] IN
            /\ r.tries \in 1..4
            /\ r.got => (r.tries = r.okAt /\ opened = {e})
            /\ ~r.got => (r.tries = 4 /\ e \notin opened)
            /\ \A i \in 1..r.tries : Wait(i) = i * Wait(1)
            /\ 2 * r.waited = r.tries * (r.tries + 1) * Wait(1)

\* the third call of the loop was the first to succeed
RetryWitness ==
    /\ AfterOpenLoop(WND)
    /\ res[WND].got /\ res[WND].okAt = 3 /\ res[WND].tries = 3
    /\ WND \in opened

\* C17: a backup leaves in the dict only entries it has read from the present
\* clipboard in this evaluation, whatever the dict held before; when the
\* clipboard has no supported format, or every read failed, the dict is empty
WholesaleReplacement ==
    [][\A e \in Ctx :
        (epc[e] = "body" /\ epc'[e] = "finally" /\ res'[e].kind = "backup")
            => /\ AsMap(clip_data') \subseteq AsMap(clip)
               /\ FormatsOf(clip_data') \subseteq ReadFormats(clip) \ res'[e].rf
               /\ (ReadFormats(clip) \subseteq res'[e].rf) => clip_data' = <<>>]_vars

\* a backup is about to run on a clipboard holding no supported format while
\* the dict holds the entries of an earlier backup
ReplacementWitness ==
    /\ AfterOpenLoop(WND) /\ WND \in opened
    /\ clip # <<>> /\ ReadFormats(clip) = {}
    /\ clip_data # <<>>

\* C18: the cursor is never above the OS sequence number, and no step of an
\* evaluation, of listen(), of stop() or of another process lowers it
CursorInvariant ==
    /\ [](last_clip_seq <= osSeq)
    /\ [][last_clip_seq' >= last_clip_seq]_vars

\* the cursor has caught up after a restore that wrote two entries, and the
\* listener has been stopped since
CursorWitness ==
    /\ last_clip_seq = osSeq /\ last_clip_seq >= 4
    /\ Len(clip) = 2
    /\ thread_id = 0 /\ \A c \in Callers : cpc[c] = "idle"

\* C19: the dict changes only in the step in which an evaluation runs
\* _backup_clipboard: a restore (complete, partial or of an empty dict), a
\* discarded notification, listen(), the runner, stop() and the other
\* processes leave it as it is
SnapshotFrame ==
    [][clip_data' # clip_data
          => \E e \in Ctx : /\ epc[e] = "body" /\ epc'[e] = "finally"
                             /\ res'[e].kind = "backup"]_vars

\* a restore that stopped at a failing SetClipboardData has left the dict whole
SnapshotFrameWitness ==
    /\ RanRestore(WND) /\ "write" \in res[WND].calls
    /\ Len(clip_data) = 2
    /\ Len(clip) < Len(clip_data)

\* C20 as stated: when stop() is called after listen() was called, the
\* listener reaches Stopped (the caller of listen() is inside it until the
\* runner has ended, so no further listen() is issued before that)
StopAfterStartStops ==
    (spc = "stop" /\ stopAfterListen) ~> Stopped

====
